---------------------------- MODULE Spec2Model ----------------------------
(***************************************************************************)
(* Model of the analysis workflow orchestrator                             *)
(* (graph_analytics_orchestrator/gae_orchestrator.py) together with the    *)
(* parts of the two engine connections (gae_connection.py) that its        *)
(* engine-lifecycle behaviour depends on.                                  *)
(*                                                                         *)
(* One run_analysis call is a walk of pc through the statements of the     *)
(* method; every backend call is one action whose outcome (a return value  *)
(* or a raised exception) is chosen by the environment.                    *)
(*                                                                         *)
(* Text is modelled as a sequence of words (punctuation is a word of its   *)
(* own); str.lower() is the word-wise map Lower and the Python `in` test   *)
(* on strings is the contiguous-subsequence test Contains.                 *)
(***************************************************************************)
EXTENDS Integers, Sequences, FiniteSets, TLC

VARIABLES
    verbose,            \* GAEOrchestrator.verbose
    backend,            \* class of self.gae: "amp" (GAEManager) or "genai"
    db_ready,           \* self.db is set
    analysis_history,   \* GAEOrchestrator.analysis_history
    current_analysis,   \* self.current_analysis is set
    engines,            \* engines alive at the backend
    current_engine_id,  \* GAEManager.current_engine_id
    nextId,             \* identifier the backend gives the next engine
    pending,            \* configs still to be run
    config,             \* config of the run in progress
    pc,                 \* position inside run_analysis
    result,             \* the AnalysisResult of the run in progress
    attempt,            \* local variable attempt of run_analysis
    exc,                \* message of the exception being handled
    original_status,    \* local variable of _cleanup_engine
    cleanup_phase,      \* which call of _cleanup_engine is active
    wait_for,           \* which step's job _wait_for_job is waiting for
    elapsed,            \* time.time() - start_time inside _wait_for_job
    job,                \* record last fetched by get_job
    waited,             \* history: time slept in the job waits of an attempt
                        \* (kept by WaitsSpec only)
    deploy_calls,       \* history: deploy_engine calls made in the run
    steps,              \* history: steps of the current attempt, in order
    delete_log,         \* history: delete_engine calls of the run
    deployed,           \* history: engine ids created by deploys of the run
    logs,               \* history: lines printed by _log
    failures,           \* history: exceptions caught by the retry loop
    returned,           \* what run_analysis gave its caller
    results,            \* local variable results of run_batch
    conn                \* fields of the engine connection object that its
                        \* own methods read and write

orch  == <<verbose, backend, db_ready>>
gaev  == <<engines, current_engine_id, nextId>>
runv  == <<pending, config, pc, result, attempt, exc>>
clnv  == <<original_status, cleanup_phase>>
waitv == <<wait_for, elapsed, job>>
histv == <<deploy_calls, steps, delete_log, deployed, logs, failures>>
outv  == <<analysis_history, current_analysis, returned>>
vars  == <<orch, gaev, runv, clnv, waitv, waited, histv, outv, results, conn>>

----------------------------------------------------------------------------
(* Bounds of the model *)

MaxRetries == 1      \* largest max_retries a config carries
MaxTimeout == 3      \* config.timeout_seconds, in clock units
MaxMessageLen == 3   \* words of an error message given to the classifier
MaxDuration == 20    \* duration_seconds of a completed run
MaxBatch == 2        \* configs handed to run_batch
MaxRequestRetries == 2   \* max_retries of _api_request_with_retry
MaxServices == 2         \* services the platform lists
MaxHealthChecks == 2     \* max_retries of ensure_service

----------------------------------------------------------------------------
(* Program constants *)

None == 0                    \* an Optional field that is not set
DEFAULT_POLL_INTERVAL == 2
CollectionCount == 100   \* documents of the target collection


----------------------------------------------------------------------------
(* Text *)

\* str.lower(), word by word
LowerWord(w) ==
    CASE w = "ARANGO_GRAPH_TOKEN" -> "arango_graph_token"
      [] w = "ARANGO_ENDPOINT"    -> "arango_endpoint"
      [] w = "ARANGO_DATABASE"    -> "arango_database"
      [] w = "Missing"            -> "missing"
      [] w = "Configuration"      -> "configuration"
      [] w = "Invalid"            -> "invalid"
      [] w = "Transient"          -> "transient"
      [] w = "API"                -> "api"
      [] w = "Graph"              -> "graph"
      [] w = "Results"            -> "results"
      [] w = "Must"               -> "must"
      [] w = "Betweenness"        -> "betweenness"
      [] w = "Unsupported"        -> "unsupported"
      [] w = "Unknown"            -> "unknown"
      [] w = "Engine"             -> "engine"
      [] w = "Engines"            -> "engines"
      [] w = "Failed"             -> "failed"
      [] OTHER                    -> w

Lower(msg) == [i \in 1..Len(msg) |-> LowerWord(msg[i])]

\* Python's `pattern in text` on strings
Contains(text, pattern) ==
    \E i \in 0..(Len(text) - Len(pattern)) :
        \A j \in 1..Len(pattern) : text[i + j] = pattern[j]

NON_RETRYABLE_ERRORS ==
    << <<"ARANGO_GRAPH_TOKEN", "not", "set">>,
       <<"ARANGO_ENDPOINT", "not", "set">>,
       <<"ARANGO_DATABASE", "not", "set">>,
       <<"Missing", "required", "environment">>,
       <<"Configuration", "error">>,
       <<"Invalid", "configuration">>,
       <<"maximum", "recursion", "depth">> >>

\* A classifier that compares without lowering the message
IsRetryableCaseSensitive(error_message) ==
    ~ \E k \in 1..Len(NON_RETRYABLE_ERRORS) :
        Contains(error_message, NON_RETRYABLE_ERRORS[k])

\* A classifier that calls every error transient
IsRetryableAlways(error_message) == TRUE

\* GAEOrchestrator._is_retryable_error
IsRetryable(error_message) ==
    LET error_lower == Lower(error_message)
    IN  ~ \E k \in 1..Len(NON_RETRYABLE_ERRORS) :
            Contains(error_lower, Lower(NON_RETRYABLE_ERRORS[k]))

\* A message carries one of the non-retryable patterns, letter case aside
MatchesNonRetryable(msg) ==
    \E k \in 1..Len(NON_RETRYABLE_ERRORS) :
        Contains(Lower(msg), Lower(NON_RETRYABLE_ERRORS[k]))

\* Messages the backends raise
TransientErr == <<"Transient", "connection", "error">>
ConfigErr    == <<"Invalid", "configuration", ":", "missing", "API", "key">>
OomErr       == <<"oom">>
BackendErrors == {TransientErr, ConfigErr}

\* Messages the library raises itself
GraphSourceErr ==
    <<"Must", "specify", "either", "graph_name", "or", "both",
      "vertex_collections", "and", "edge_collections">>
BetweennessErr == <<"Betweenness", "centrality", "not", "yet", "supported">>
UnsupportedErr(algorithm) == <<"Unsupported", "algorithm", ":", algorithm>>
EngineStartErr == <<"Engine", "did", "not", "start", "within", "60", "seconds">>
UnknownError == <<"Unknown", "error">>
NoMessage == << >>


----------------------------------------------------------------------------
(* Data model *)

Statuses ==
    {"pending", "engine_deploying", "graph_loading", "algorithm_running",
     "storing_results", "completed", "failed", "cleaning_up"}

SupportedAlgorithms == {"pagerank", "label_propagation", "scc", "wcc"}
Algorithms == {"pagerank", "betweenness", "louvain"}

\* AnalysisConfig: the fields the workflow reads
Configs ==
    [vertex_collections : {<< >>, <<"v">>},
     edge_collections   : {<< >>, <<"e">>},
     algorithm          : Algorithms,
     auto_cleanup       : BOOLEAN,
     retry_on_failure   : BOOLEAN,
     max_retries        : (0 - 1)..MaxRetries,
     timeout_seconds    : {MaxTimeout}]

\* AnalysisResult as run_analysis creates it
NewResult ==
    [status            |-> "pending",
     engine_id         |-> None,
     graph_id          |-> None,
     vertex_count      |-> None,
     job_id            |-> None,
     results_stored    |-> FALSE,
     documents_updated |-> None,
     error_message     |-> NoMessage,
     retry_count       |-> 0]

\* dict.get(key, default)
Get(d, key, default) == IF key \in DOMAIN d THEN d[key] ELSE default

\* Python's `a or b` on Optional identifiers
Or(a, b) == IF a # None THEN a ELSE b

EmptyRecord == [k \in {} |-> None]

\* GAEConnectionBase._normalize_job_response
NormalizeJobResponse(d) ==
    IF "job_id" \in DOMAIN d /\ "id" \notin DOMAIN d
    THEN [k \in DOMAIN d \cup {"id"} |-> IF k = "id" THEN d["job_id"] ELSE d[k]]
    ELSE d

\* Bodies the engine answers a job submission with
LoadResponses  == {EmptyRecord, [job_id |-> 1, graph_id |-> 2]}
AlgoResponses  == {[job_id |-> 3]}
StoreResponses == {EmptyRecord, [job_id |-> 4]}

\* Records get_job answers with
JobRecs ==
    << [progress |-> 5, total |-> 10],
       [progress |-> 10, total |-> 10],
       [status |-> "succeeded"],
       [status |-> "failed", error |-> ConfigErr],
       [state |-> "failed", error |-> OomErr],
       [status |-> "running"] >>

\* The orchestrator reads no field of its connection
NoConnFields == << >>

NoFailures == [count |-> 0, non_retryable |-> FALSE]
NothingReturned == [kind |-> "none", result |-> NewResult]

----------------------------------------------------------------------------
(* Decisions of run_analysis *)

\* A loop bound that is one iteration too long
MaxAttemptsOneMore(c) == IF c.retry_on_failure THEN c.max_retries + 2 ELSE 1

\* max_attempts of run_analysis
MaxAttempts(c) == IF c.retry_on_failure THEN c.max_retries + 1 ELSE 1

\* A retry test that gives up one attempt early
CanRetryOneFewer(c, a) == c.retry_on_failure /\ a < c.max_retries - 1

\* The retry test of the except branch
CanRetry(c, a) == c.retry_on_failure /\ a < c.max_retries

\* The validation at the head of load_graph (graph_name is never passed on)
GraphSourceGiven(c) == c.vertex_collections # << >> /\ c.edge_collections # << >>

\* A finally clause that restores nothing
RestoredStatusNever(original, current) == current

\* A finally clause that restores only a successful status
RestoredStatusCompletedOnly(original, current) ==
    IF original = "completed" THEN original ELSE current

\* The finally clause of _cleanup_engine
RestoredStatus(original, current) ==
    IF original \in {"completed", "failed"} THEN original ELSE current

\* The except clause of _deploy_engine
CapturedEngineId(r, gae_current) ==
    IF backend = "amp" /\ gae_current # None /\ r.engine_id = None
    THEN gae_current ELSE r.engine_id

\* _log prints only when verbose
Log(lines) == IF verbose THEN logs \cup lines ELSE logs

Description(which) ==
    CASE which = "load"      -> <<"Graph", "loading">>
      [] which = "algorithm" -> <<config.algorithm, "computation">>
      [] which = "store"     -> <<"Results", "storage">>

\* Python truth of a text value: the empty text stands for False, "" and None
Truthy(v) == v # << >>

\* A shape test that looks for the status string first
ShapeStatusFirst(j) ==
    IF "status" \in DOMAIN j THEN "status"
    ELSE IF "progress" \in DOMAIN j /\ "total" \in DOMAIN j THEN "progress"
    ELSE IF "state" \in DOMAIN j THEN "state"
    ELSE "unknown"

\* The if/elif chain of _wait_for_job: the shape that decides a record
Shape(j) ==
    IF "progress" \in DOMAIN j /\ "total" \in DOMAIN j THEN "progress"
    ELSE IF "status" \in DOMAIN j THEN "status"
    ELSE IF "state" \in DOMAIN j THEN "state"
    ELSE "unknown"

\* The completed states of constants.py
COMPLETED_STATES == {"done", "finished", "completed", "succeeded"}

\* The states the state-shape branch of _wait_for_job takes for success
StateCompleted == {"done", "finished", "completed"}

\* The states the state-shape branch of _wait_for_job takes for failure
StateFailed == {"failed", "error"}

\* A progress test that is satisfied before the total is reached
ProgressCompleteEarly(progress, total) == progress + 5 >= total /\ total > 0

\* The completion test of the progress shape
ProgressComplete(progress, total) == progress >= total /\ total > 0

\* A failure text that drops what the backend reported
FailureMessageUnknown(description, reported) ==
    description \o <<"failed", ":">> \o <<"Unknown", "error">>

\* The text of the RuntimeError of a failed job
FailureMessage(description, reported) ==
    description \o <<"failed", ":">> \o reported

\* A timeout test that never fires
TimedOutNever(seconds, c) == FALSE

\* The timeout test after an undecided poll
TimedOut(seconds, c) == seconds > c.timeout_seconds

\* An else branch that takes a record of unknown format for a finished job
UnknownFormatReturns == [kind |-> "return", msg |-> << >>]

\* The else branch of the chain: unknown format, the job counts as running
UnknownFormat == [kind |-> "running", msg |-> << >>]

\* What one pass of the loop of _wait_for_job makes of the record fetched
JobOutcome(j, description) ==
    IF Shape(j) = "progress"
    THEN IF Truthy(Get(j, "error", << >>))
         THEN [kind |-> "raise",
               msg  |-> FailureMessage(description,
                                       Get(j, "error_message", UnknownError))]
         ELSE IF ProgressComplete(j["progress"], j["total"])
              THEN [kind |-> "return", msg |-> NoMessage]
              ELSE [kind |-> "running", msg |-> NoMessage]
    ELSE IF Shape(j) = "status"
    THEN IF j["status"] = "succeeded"
         THEN [kind |-> "return", msg |-> NoMessage]
         ELSE IF j["status"] = "failed"
              THEN [kind |-> "raise",
                    msg  |-> FailureMessage(description,
                                            Get(j, "error", UnknownError))]
              ELSE [kind |-> "running", msg |-> NoMessage]
    ELSE IF Shape(j) = "state"
    THEN IF j["state"] \in StateCompleted
         THEN [kind |-> "return", msg |-> NoMessage]
         ELSE IF j["state"] \in StateFailed
              THEN [kind |-> "raise",
                    msg  |-> FailureMessage(description,
                                            Get(j, "error", UnknownError))]
              ELSE [kind |-> "running", msg |-> NoMessage]
    ELSE UnknownFormat

TimeoutMessage(description, seconds) ==
    description \o <<"timed", "out", "after", ToString(seconds), "s">>



----------------------------------------------------------------------------
(* Initial state: an orchestrator just built around an engine connection; *)
(* a managed-platform account may already hold an engine                  *)

Init ==
    /\ verbose \in BOOLEAN
    /\ backend \in {"amp", "genai"}
    /\ db_ready = FALSE
    /\ analysis_history = << >>
    /\ current_analysis = FALSE
    /\ engines \in IF backend = "amp" THEN {{}, {1}} ELSE {{}}
    /\ current_engine_id = None
    /\ nextId = 2
    /\ pending \in {<<c>> : c \in Configs}
    /\ config = pending[1]
    /\ pc = "idle"
    /\ result = NewResult
    /\ attempt = 0
    /\ exc = NoMessage
    /\ original_status = "pending"
    /\ cleanup_phase = "none"
    /\ wait_for = "none"
    /\ elapsed = 0
    /\ job = EmptyRecord
    /\ waited = 0
    /\ results = << >>
    /\ conn = NoConnFields
    /\ deploy_calls = 0
    /\ steps = << >>
    /\ delete_log = << >>
    /\ deployed = {}
    /\ logs = {}
    /\ failures = NoFailures
    /\ returned = NothingReturned

----------------------------------------------------------------------------
(* run_analysis, statement by statement *)

\* An exception raised inside the try block of the retry loop
Raise(msg) ==
    /\ exc' = msg
    /\ pc' = "except"

\* An exception that leaves run_analysis
Propagate ==
    /\ pc' = "raised"
    /\ returned' = [kind |-> "raised", result |-> result]

\* run_analysis up to the creation of the result tracker
RunAnalysis ==
    /\ pc = "idle"
    /\ pending # << >>
    /\ config' = Head(pending)
    /\ pending' = Tail(pending)
    /\ result' = NewResult
    /\ current_analysis' = TRUE
    /\ pc' = "initialize"
    /\ deploy_calls' = 0
    /\ steps' = << >>
    /\ delete_log' = << >>
    /\ deployed' = {}
    /\ logs' = {}
    /\ failures' = NoFailures
    /\ returned' = NothingReturned
    /\ UNCHANGED <<conn, results, waited, orch, gaev, attempt, exc, clnv, waitv, analysis_history>>

\* _initialize_connections: get_db_connection returns or raises
InitializeConnections ==
    /\ pc = "initialize"
    /\ \/ /\ db_ready' = TRUE
          /\ pc' = "check"
          /\ UNCHANGED returned
       \/ /\ ~ db_ready
          /\ Propagate
          /\ UNCHANGED db_ready
    /\ UNCHANGED <<conn, results, waited, verbose, backend, gaev, pending, config, result, attempt,
                   exc, clnv, waitv, histv, analysis_history, current_analysis>>

\* A safety check that lets every list of engines pass
EnginesAlreadyRunningNever(existing) == FALSE

\* `if existing:` of _check_existing_engines
EnginesAlreadyRunning(existing) == existing # {}

\* Exceptions list_engines can raise: a request error, an AttributeError
\* (the body of the answer is not a mapping), and an error of the token
\* refresh that quotes what the login tool printed
AlreadyRunningText == <<"already", "running">>
ListEnginesErrors ==
    {[type |-> "Exception", msg |-> TransientErr],
     [type |-> "AttributeError",
      msg  |-> <<"list", "object", "has", "no", "attribute", "get">>],
     [type |-> "Exception",
      msg  |-> <<"Failed", "to", "generate", "token", ":", "login",
                 "already", "running">>]}

\* The except clauses of _check_existing_engines
CheckErrorHandling(e) ==
    IF e.type = "AttributeError" THEN "pass"
    ELSE IF Contains(e.msg, AlreadyRunningText) THEN "raise"
    ELSE "warn"

\* _check_existing_engines up to the answer of list_engines
CheckExistingEngines ==
    /\ pc = "check"
    /\ \/ \* GAEManager.list_engines answers
          /\ backend = "amp"
          /\ pc' = "listed"
          /\ UNCHANGED <<attempt, logs, returned>>
       \/ \* the connection has no list_engines: the check is skipped
          /\ backend = "genai"
          /\ attempt' = 0
          /\ pc' = "loop"
          /\ UNCHANGED <<logs, returned>>
       \/ \* list_engines raises
          /\ backend = "amp"
          /\ \E e \in ListEnginesErrors :
                LET handling == CheckErrorHandling(e)
                IN  IF handling = "raise"
                    THEN /\ Propagate
                         /\ UNCHANGED <<attempt, logs>>
                    ELSE /\ attempt' = 0
                         /\ pc' = "loop"
                         /\ logs' = IF handling = "warn"
                                    THEN Log({[level |-> "WARN",
                                               text |-> "could not check",
                                               engine_id |-> None]})
                                    ELSE logs
                         /\ UNCHANGED returned
    /\ UNCHANGED <<conn, results, waited, orch, gaev, pending, config, result, exc, clnv, waitv,
                   deploy_calls, steps, delete_log, deployed, failures,
                   analysis_history, current_analysis>>

\* The rest of _check_existing_engines: the RuntimeError for engines that
\* are already running leaves run_analysis; otherwise the retry loop is set up
RaiseIfEnginesRunning ==
    /\ pc = "listed"
    /\ IF EnginesAlreadyRunning(engines)
       THEN /\ Propagate
            /\ UNCHANGED attempt
       ELSE /\ attempt' = 0
            /\ pc' = "loop"
            /\ UNCHANGED returned
    /\ UNCHANGED <<conn, results, waited, orch, gaev, pending, config, result, exc, clnv, waitv,
                   histv, analysis_history, current_analysis>>

\* A loop head that does not record the retry
RetryCountNotRecorded(r, a) == r

\* 'if attempt > 0: result.retry_count = attempt'
RetryCountAt(r, a) ==
    IF a > 0 THEN [r EXCEPT !.retry_count = a] ELSE r

\* The head of the while loop
LoopHead ==
    /\ pc = "loop"
    /\ IF attempt < MaxAttempts(config)
       THEN /\ result' = RetryCountAt(result, attempt)
            /\ steps' = << >>
            /\ pc' = "deploy"
       ELSE /\ pc' = "final"
            /\ UNCHANGED <<result, steps>>
    /\ UNCHANGED <<conn, results, waited, orch, gaev, pending, config, attempt, exc, clnv, waitv,
                   deploy_calls, delete_log, deployed, logs, failures, outv>>

\* _deploy_engine around deploy_engine of the connection
DeployEngine ==
    /\ pc = "deploy"
    /\ deploy_calls' = deploy_calls + 1
    /\ \/ \* the engine is created and becomes ready
          /\ engines' = engines \cup {nextId}
          /\ nextId' = nextId + 1
          /\ current_engine_id' =
                IF backend = "amp" THEN nextId ELSE current_engine_id
          /\ deployed' = deployed \cup {nextId}
          /\ result' = [result EXCEPT !.status = "engine_deploying",
                                      !.engine_id = nextId]
          /\ steps' = steps \o <<"deploy", "deploy_ok">>
          /\ pc' = "load"
          /\ UNCHANGED exc
       \/ \* the request fails and no engine is created
          \E e \in BackendErrors :
             /\ result' = [result EXCEPT
                             !.status = "engine_deploying",
                             !.engine_id = CapturedEngineId(result, current_engine_id)]
             /\ steps' = Append(steps, "deploy")
             /\ Raise(e)
             /\ UNCHANGED <<gaev, deployed>>
       \/ \* GAEManager: the engine is created but does not become ready
          /\ backend = "amp"
          /\ engines' = engines \cup {nextId}
          /\ nextId' = nextId + 1
          /\ current_engine_id' = nextId
          /\ deployed' = deployed \cup {nextId}
          /\ result' = [result EXCEPT
                          !.status = "engine_deploying",
                          !.engine_id = CapturedEngineId(result, nextId)]
          /\ steps' = Append(steps, "deploy")
          /\ Raise(EngineStartErr)
    /\ UNCHANGED <<conn, results, waited, orch, pending, config, attempt, clnv, waitv, delete_log,
                   logs, failures, outv>>

\* Entering _wait_for_job
StartWait(which) ==
    /\ wait_for' = which
    /\ elapsed' = 0
    /\ pc' = "wait"

\* _load_graph up to its job wait, with load_graph of the connection
LoadGraph ==
    /\ pc = "load"
    /\ \/ /\ ~ GraphSourceGiven(config)
          /\ result' = [result EXCEPT !.status = "graph_loading"]
          /\ steps' = Append(steps, "load")
          /\ Raise(GraphSourceErr)
          /\ UNCHANGED <<wait_for, elapsed>>
       \/ /\ GraphSourceGiven(config)
          /\ \E e \in BackendErrors :
                /\ result' = [result EXCEPT !.status = "graph_loading"]
                /\ steps' = Append(steps, "load")
                /\ Raise(e)
                /\ UNCHANGED <<wait_for, elapsed>>
       \/ /\ GraphSourceGiven(config)
          /\ \E body \in LoadResponses :
                LET graph_info == NormalizeJobResponse(body)
                    job_id == Or(Get(graph_info, "job_id", None),
                                 Get(graph_info, "id", None))
                IN  /\ result' = [result EXCEPT
                                    !.status = "graph_loading",
                                    !.graph_id = Or(Get(graph_info, "graph_id", None),
                                                    Get(graph_info, "id", None))]
                    /\ IF job_id # None
                       THEN /\ StartWait("load")
                            /\ steps' = steps \o <<"load", "load_ok", "load_wait">>
                       ELSE /\ pc' = "get_graph"
                            /\ steps' = steps \o <<"load", "load_ok_no_job">>
                            /\ UNCHANGED <<wait_for, elapsed>>
                    /\ UNCHANGED exc
    /\ UNCHANGED <<conn, results, waited, orch, gaev, pending, config, attempt, clnv, job,
                   deploy_calls, delete_log, deployed, logs, failures, outv>>


\* A workflow that stores right after the load
AfterWaitSkipsAlgorithm(which) ==
    CASE which = "load"      -> "store"
      [] which = "algorithm" -> "store"
      [] which = "store"     -> "count"

\* Where the caller of _wait_for_job goes on
AfterWait(which) ==
    CASE which = "load"      -> "get_graph"
      [] which = "algorithm" -> "store"
      [] which = "store"     -> "count"

WaitDone(which) ==
    CASE which = "load"      -> "load_wait_ok"
      [] which = "algorithm" -> "algorithm_wait_ok"
      [] which = "store"     -> "store_wait_ok"

\* Leaving _wait_for_job: its locals go out of scope
EndWait ==
    /\ wait_for' = "none"
    /\ elapsed' = 0

\* A clock that stands still during the sleep
ClockStandsStill(seconds) == seconds

\* time.time() - start_time one time.sleep(poll_interval) later
ClockAfterSleep(seconds) == seconds + DEFAULT_POLL_INTERVAL

\* One pass of the loop of _wait_for_job with the record j that get_job
\* answered: the shape tests, the timeout test and the sleep
PollStep(j) ==
    LET outcome == JobOutcome(j, Description(wait_for))
    IN  /\ job' = j
        /\ CASE outcome.kind = "return" ->
                  /\ steps' = Append(steps, WaitDone(wait_for))
                  /\ pc' = AfterWait(wait_for)
                  /\ EndWait
                  /\ UNCHANGED exc
             [] outcome.kind = "raise" ->
                  /\ Raise(outcome.msg)
                  /\ EndWait
                  /\ UNCHANGED steps
             [] outcome.kind = "running" ->
                  IF current_analysis /\ TimedOut(elapsed, config)
                  THEN /\ Raise(TimeoutMessage(Description(wait_for), elapsed))
                       /\ EndWait
                       /\ UNCHANGED steps
                  ELSE /\ elapsed' = ClockAfterSleep(elapsed)
                       /\ UNCHANGED <<pc, exc, steps, wait_for>>

\* One pass of the loop of _wait_for_job: get_job, then the rest of the pass
Poll ==
    /\ pc = "wait"
    /\ \/ \* GAEManager.get_job lets a request error through
          /\ backend = "amp"
          /\ \E e \in BackendErrors : Raise(e)
          /\ EndWait
          /\ UNCHANGED <<job, steps>>
       \/ \E i \in 1..Len(JobRecs) : PollStep(JobRecs[i])
    /\ UNCHANGED <<conn, results, waited, orch, gaev, pending, config, result, attempt, clnv,
                   deploy_calls, delete_log, deployed, logs, failures, outv>>

\* What get_graph does: it answers the graph details or raises
GetGraphOutcomes ==
    {[raised |-> FALSE, vertex_count |-> 100],
     [raised |-> TRUE, vertex_count |-> None]}

\* A lookup whose failure clears the count
VertexCountCleared(previous, outcome) ==
    IF outcome.raised THEN None ELSE outcome.vertex_count

\* result.vertex_count after the try/except around get_graph
VertexCountAfter(previous, outcome) ==
    IF outcome.raised THEN previous ELSE outcome.vertex_count

\* The rest of _load_graph: get_graph, whose failure is swallowed
GetGraph ==
    /\ pc = "get_graph"
    /\ \E outcome \in GetGraphOutcomes :
          result' = [result EXCEPT
                        !.vertex_count = VertexCountAfter(@, outcome)]
    /\ job' = EmptyRecord
    /\ pc' = "algorithm"
    /\ UNCHANGED <<conn, results, waited, orch, gaev, pending, config, attempt, exc, clnv, wait_for,
                   elapsed, histv, outv>>

\* A dispatch that also has an entry point for betweenness
DispatchedWithBetweenness(algorithm) ==
    algorithm \in SupportedAlgorithms \cup {"betweenness"}

\* The selectors _run_algorithm dispatches to an entry point of the connection
Dispatched(algorithm) == algorithm \in SupportedAlgorithms

\* _run_algorithm up to its job wait
RunAlgorithm ==
    /\ pc = "algorithm"
    /\ IF Dispatched(config.algorithm)
       THEN \/ \E e \in BackendErrors :
                  /\ result' = [result EXCEPT !.status = "algorithm_running"]
                  /\ steps' = Append(steps, "algorithm")
                  /\ Raise(e)
                  /\ UNCHANGED <<wait_for, elapsed>>
            \/ \E body \in AlgoResponses :
                  LET job_info == NormalizeJobResponse(body)
                  IN  /\ result' = [result EXCEPT
                                      !.status = "algorithm_running",
                                      !.job_id = Or(Get(job_info, "job_id", None),
                                                    Get(job_info, "id", None))]
                      /\ steps' = steps \o <<"algorithm", "algorithm_ok",
                                             "algorithm_wait">>
                      /\ StartWait("algorithm")
                      /\ UNCHANGED exc
       ELSE /\ result' = [result EXCEPT !.status = "algorithm_running"]
            /\ Raise(IF config.algorithm = "betweenness"
                     THEN BetweennessErr
                     ELSE UnsupportedErr(config.algorithm))
            /\ UNCHANGED <<steps, wait_for, elapsed>>
    /\ UNCHANGED <<conn, results, waited, orch, gaev, pending, config, attempt, clnv, job,
                   deploy_calls, delete_log, deployed, logs, failures, outv>>

\* _store_results up to its job wait
StoreResults ==
    /\ pc = "store"
    /\ job' = EmptyRecord
    /\ \/ \E e \in BackendErrors :
             /\ result' = [result EXCEPT !.status = "storing_results"]
             /\ steps' = Append(steps, "store")
             /\ Raise(e)
             /\ UNCHANGED <<wait_for, elapsed>>
       \/ \E body \in StoreResponses :
             LET store_info == NormalizeJobResponse(body)
                 store_job_id == Or(Get(store_info, "job_id", None),
                                    Get(store_info, "id", None))
             IN  /\ result' = [result EXCEPT !.status = "storing_results"]
                 /\ IF store_job_id # None
                    THEN /\ StartWait("store")
                         /\ steps' = steps \o <<"store", "store_ok", "store_wait">>
                    ELSE /\ pc' = "count"
                         /\ steps' = steps \o <<"store", "store_ok_no_job">>
                         /\ UNCHANGED <<wait_for, elapsed>>
                 /\ UNCHANGED exc
    /\ UNCHANGED <<conn, results, waited, orch, gaev, pending, config, attempt, clnv, deploy_calls,
                   delete_log, deployed, logs, failures, outv>>

\* A store step that leaves the flag alone
MarkStoredSkipped(r) == r

\* 'result.results_stored = True'
MarkStored(r) == [r EXCEPT !.results_stored = TRUE]

\* The rest of _store_results: the flag and the best-effort document count
CountDocuments ==
    /\ pc = "count"
    /\ \/ /\ result' = [MarkStored(result) EXCEPT
                            !.documents_updated = CollectionCount]
          /\ UNCHANGED logs
       \/ /\ result' = MarkStored(result)
          /\ logs' = Log({[level |-> "WARN", text |-> "could not count",
                           engine_id |-> None]})
    /\ job' = EmptyRecord
    /\ pc' = "completed"
    /\ UNCHANGED <<conn, results, waited, orch, gaev, pending, config, attempt, exc, clnv, wait_for,
                   elapsed, deploy_calls, steps, delete_log, deployed, failures,
                   outv>>

\* The success branch of the try block
MarkCompleted ==
    /\ pc = "completed"
    /\ result' = [result EXCEPT !.status = "completed"]
    /\ pc' = "final"
    /\ UNCHANGED <<conn, results, waited, orch, gaev, pending, config, attempt, exc, clnv, waitv,
                   histv, outv>>

\* The except branch of the try block
HandleException ==
    /\ pc = "except"
    /\ result' = [result EXCEPT !.status = "failed", !.error_message = exc]
    /\ failures' = [count |-> failures.count + 1,
                    non_retryable |-> failures.non_retryable \/ MatchesNonRetryable(exc)]
    /\ logs' = Log({[level |-> "ERROR", text |-> "analysis failed",
                     engine_id |-> None]})
    /\ job' = EmptyRecord
    /\ IF ~ IsRetryable(exc)
       THEN /\ pc' = "final"
            /\ UNCHANGED attempt
       ELSE IF CanRetry(config, attempt)
            THEN /\ attempt' = attempt + 1
                 /\ pc' = IF result.engine_id # None THEN "teardown" ELSE "loop"
            ELSE /\ pc' = "final"
                 /\ UNCHANGED attempt
    /\ UNCHANGED <<conn, results, waited, orch, gaev, pending, config, exc, clnv, wait_for, elapsed,
                   deploy_calls, steps, delete_log, deployed, outv>>


\* _cleanup_engine up to the delete_engine call
BeginCleanup(phase) ==
    /\ original_status' = result.status
    /\ result' = [result EXCEPT !.status = "cleaning_up"]
    /\ cleanup_phase' = phase
    /\ pc' = "delete"

\* The clean-up of the failed engine before a retry
TeardownBeforeRetry ==
    /\ pc = "teardown"
    /\ BeginCleanup("retry")
    /\ UNCHANGED <<conn, results, waited, orch, gaev, pending, config, attempt, exc, waitv, histv,
                   outv>>

\* A final clean-up that skips the engine of a failed run
FinalCleanupWantedOnSuccessOnly(r, c) ==
    r.engine_id # None /\ c.auto_cleanup /\ r.status = "completed"

\* A final clean-up that skips the engine of a completed run
FinalCleanupWantedOnFailureOnly(r, c) ==
    r.engine_id # None /\ c.auto_cleanup /\ r.status # "completed"

\* The two tests that guard the final _cleanup_engine call
FinalCleanupWanted(r, c) == r.engine_id # None /\ c.auto_cleanup

\* The clean-up after the retry loop
FinalCleanup ==
    /\ pc = "final"
    /\ IF FinalCleanupWanted(result, config)
       THEN /\ BeginCleanup("final")
            /\ UNCHANGED logs
       ELSE /\ pc' = "append"
            /\ logs' = IF result.engine_id # None
                       THEN Log({[level |-> "WARN", text |-> "left running",
                                  engine_id |-> result.engine_id]})
                       ELSE logs
            /\ UNCHANGED <<result, clnv>>
    /\ UNCHANGED <<conn, results, waited, orch, gaev, pending, config, attempt, exc, waitv,
                   deploy_calls, steps, delete_log, deployed, failures, outv>>

\* The engine identifiers the text of a delete_engine exception can carry:
\* the RuntimeError of the GenAI connection names the engine, the error the
\* AMP request lets through may or may not
DeleteErrorNames(id) ==
    IF backend = "genai" THEN {id} ELSE {id, None}

\* What the caller of _cleanup_engine does once the call is over; named is
\* the engine identifier in the text of the exception, if any
AfterCleanup(ok, named) ==
    IF cleanup_phase = "retry"
    THEN /\ result' = [result EXCEPT
                         !.status = RestoredStatus(original_status, @),
                         !.engine_id = IF ok THEN None ELSE @]
         /\ logs' = IF ok THEN logs
                    ELSE Log({[level |-> "WARN", text |-> "cleanup before retry failed",
                               engine_id |-> named]})
         /\ pc' = "loop"
    ELSE /\ result' = [result EXCEPT
                         !.status = RestoredStatus(original_status, @)]
         /\ logs' = IF ok THEN logs
                    ELSE Log({[level |-> "ERROR", text |-> "engine cleanup failed",
                               engine_id |-> named],
                              [level |-> "ERROR", text |-> "you must manually delete engine",
                               engine_id |-> result.engine_id]})
         /\ pc' = "append"

\* delete_engine of the connection inside _cleanup_engine, the finally
\* clause, and the handler of the caller
DeleteEngine ==
    /\ pc = "delete"
    /\ \/ \* the engine is deleted
          /\ result.engine_id \in engines
          /\ engines' = engines \ {result.engine_id}
          /\ current_engine_id' =
                IF backend = "amp" /\ current_engine_id = result.engine_id
                THEN None ELSE current_engine_id
          /\ delete_log' = Append(delete_log,
                [engine_id |-> result.engine_id, phase |-> cleanup_phase, ok |-> TRUE])
          /\ AfterCleanup(TRUE, None)
       \/ \* the call raises: the engine is unknown or stays alive
          /\ delete_log' = Append(delete_log,
                [engine_id |-> result.engine_id, phase |-> cleanup_phase, ok |-> FALSE])
          /\ \E named \in DeleteErrorNames(result.engine_id) :
                AfterCleanup(FALSE, named)
          /\ UNCHANGED <<engines, current_engine_id>>
       \/ \* the call raises although the backend removed the engine
          /\ result.engine_id \in engines
          /\ engines' = engines \ {result.engine_id}
          /\ delete_log' = Append(delete_log,
                [engine_id |-> result.engine_id, phase |-> cleanup_phase, ok |-> FALSE])
          /\ \E named \in DeleteErrorNames(result.engine_id) :
                AfterCleanup(FALSE, named)
          /\ UNCHANGED current_engine_id
    /\ UNCHANGED <<conn, results, waited, orch, nextId, pending, config, attempt, exc, clnv, waitv,
                   deploy_calls, steps, deployed, failures, outv>>

\* A return that keeps only the latest result in the history
ReturnReplacingHistory ==
    /\ pc = "append"
    /\ analysis_history' = <<result>>
    /\ current_analysis' = FALSE
    /\ returned' = [kind |-> "result", result |-> result]
    /\ pc' = "idle"
    /\ UNCHANGED <<conn, results, waited, orch, gaev, pending, config, result, attempt,
                   exc, clnv, waitv, histv>>

\* The end of run_analysis: the history entry and the return
Return ==
    /\ pc = "append"
    /\ analysis_history' = Append(analysis_history, result)
    /\ current_analysis' = FALSE
    /\ returned' = [kind |-> "result", result |-> result]
    /\ pc' = "idle"
    /\ UNCHANGED <<conn, results, waited, orch, gaev, pending, config, result, attempt, exc, clnv,
                   waitv, histv>>

Next ==
    \/ RunAnalysis
    \/ InitializeConnections
    \/ CheckExistingEngines
    \/ RaiseIfEnginesRunning
    \/ LoopHead
    \/ DeployEngine
    \/ LoadGraph
    \/ Poll
    \/ GetGraph
    \/ RunAlgorithm
    \/ StoreResults
    \/ CountDocuments
    \/ MarkCompleted
    \/ HandleException
    \/ TeardownBeforeRetry
    \/ FinalCleanup
    \/ DeleteEngine
    \/ Return

Spec == Init /\ [][Next]_vars

\* run_analysis is sequential code: the statement control has reached is
\* executed, every backend call in it returning or raising
\* _log takes no part in the control flow: the quiet orchestrator
FairInit == Init /\ ~ verbose

FairSpec == FairInit /\ [][Next]_vars /\ WF_vars(Next)

----------------------------------------------------------------------------
(* run_batch: the configs of the batch are in pending, each run_analysis   *)
(* call is the run above, and results collects what the calls return. An   *)
(* element of results is a result together with its config field.          *)

\* The configs of a batch: complete ones, with auto_cleanup and without
\* retries, so that the retry steps of run_analysis do not occur in a batch
BatchConfigs ==
    {c \in Configs : /\ GraphSourceGiven(c)
                     /\ c.algorithm = "pagerank"
                     /\ c.auto_cleanup
                     /\ ~ c.retry_on_failure
                     /\ c.max_retries = MaxRetries}

Batches == UNION {[1..n -> BatchConfigs] : n \in 0..MaxBatch}

BatchInit ==
    /\ verbose = TRUE
    /\ backend \in {"amp", "genai"}
    /\ db_ready = FALSE
    /\ analysis_history = << >>
    /\ current_analysis = FALSE
    /\ engines = {}
    /\ current_engine_id = None
    /\ nextId = 2
    /\ pending \in Batches
    /\ config \in BatchConfigs
    /\ pending # << >> => config = pending[1]
    /\ pc = "idle"
    /\ result = NewResult
    /\ attempt = 0
    /\ exc = NoMessage
    /\ original_status = "pending"
    /\ cleanup_phase = "none"
    /\ wait_for = "none"
    /\ elapsed = 0
    /\ job = EmptyRecord
    /\ waited = 0
    /\ results = << >>
    /\ conn = NoConnFields
    /\ deploy_calls = 0
    /\ steps = << >>
    /\ delete_log = << >>
    /\ deployed = {}
    /\ logs = {}
    /\ failures = NoFailures
    /\ returned = NothingReturned

\* The loop of run_batch calls run_analysis with the next config
BatchCall ==
    /\ returned.kind = "none"
    /\ RunAnalysis

\* The loop of run_batch after the call: the result is appended and logged;
\* the locals of the call that has returned are gone
BatchCollect ==
    /\ pc = "idle"
    /\ returned.kind = "result"
    /\ results' = Append(results, [config |-> config, result |-> returned.result])
    /\ logs' = Log({[level |-> "INFO",
                     text |-> IF returned.result.status = "completed"
                              THEN "batch run completed"
                              ELSE "batch run failed",
                     engine_id |-> None]})
    /\ returned' = NothingReturned
    /\ attempt' = 0
    /\ exc' = NoMessage
    /\ original_status' = "pending"
    /\ cleanup_phase' = "none"
    /\ wait_for' = "none"
    /\ elapsed' = 0
    /\ job' = EmptyRecord
    /\ UNCHANGED <<conn, waited, orch, gaev, pending, config, pc, result, deploy_calls,
                   steps, delete_log, deployed, failures, analysis_history,
                   current_analysis>>

\* The end of run_batch: the summary and the return of results
BatchReturn ==
    /\ pc = "idle"
    /\ returned.kind = "none"
    /\ pending = << >>
    /\ pc' = "batch_returned"
    /\ logs' = Log({[level |-> "INFO", text |-> "batch complete",
                     engine_id |-> None]})
    /\ UNCHANGED <<conn, results, waited, orch, gaev, pending, config, result, attempt,
                   exc, clnv, waitv, deploy_calls, steps, delete_log, deployed,
                   failures, outv>>

BatchNext ==
    \/ BatchCall
    \/ BatchCollect
    \/ BatchReturn
    \/ InitializeConnections
    \/ CheckExistingEngines
    \/ RaiseIfEnginesRunning
    \/ LoopHead
    \/ DeployEngine
    \/ LoadGraph
    \/ Poll
    \/ GetGraph
    \/ RunAlgorithm
    \/ StoreResults
    \/ CountDocuments
    \/ MarkCompleted
    \/ HandleException
    \/ FinalCleanup
    \/ DeleteEngine
    \/ Return

BatchSpec == BatchInit /\ [][BatchNext]_vars

----------------------------------------------------------------------------
(* _wait_for_job on its own: one wait of a run, for every record the       *)
(* engine may hold for the job                                             *)

\* The records with the key k, one for each value, and the one without it
Field(k, values) == {EmptyRecord} \cup {k :> v : v \in values}

\* Job records over the keys _wait_for_job reads
JobSpace ==
    {a @@ b @@ c @@ d @@ e @@ f :
        a \in Field("progress", {5, 10}),
        b \in Field("total", {0, 10}),
        c \in Field("error", {<< >>, OomErr}),
        d \in Field("error_message", {ConfigErr}),
        e \in Field("status", {"running", "succeeded", "failed"}),
        f \in Field("state", {"running", "done", "finished", "completed",
                              "succeeded", "failed", "error"})}

\* A run that has just entered _wait_for_job for one of its three jobs; job
\* is the record the engine holds, which every get_job of the wait answers
PollerInit ==
    /\ verbose \in BOOLEAN
    /\ backend = "genai"
    /\ db_ready = TRUE
    /\ analysis_history = << >>
    /\ current_analysis = TRUE
    /\ engines = {2}
    /\ current_engine_id = None
    /\ nextId = 3
    /\ pending = << >>
    /\ config \in {c \in Configs : /\ GraphSourceGiven(c)
                                   /\ c.algorithm = "pagerank"
                                   /\ c.auto_cleanup
                                   /\ ~ c.retry_on_failure
                                   /\ c.max_retries = 0}
    /\ pc = "wait"
    /\ result = [NewResult EXCEPT !.engine_id = 2]
    /\ attempt = 0
    /\ exc = NoMessage
    /\ original_status = "pending"
    /\ cleanup_phase = "none"
    /\ wait_for \in {"load", "algorithm", "store"}
    /\ elapsed = 0
    /\ job \in JobSpace
    /\ waited = 0
    /\ results = << >>
    /\ conn = NoConnFields
    /\ deploy_calls = 1
    /\ steps = << >>
    /\ delete_log = << >>
    /\ deployed = {2}
    /\ logs = {}
    /\ failures = NoFailures
    /\ returned = NothingReturned

\* One pass of the loop of _wait_for_job (GenAI get_job does not raise)
PollJob ==
    /\ pc = "wait"
    /\ PollStep(job)
    /\ UNCHANGED <<conn, results, waited, orch, gaev, pending, config, result, attempt, clnv,
                   deploy_calls, delete_log, deployed, logs, failures, outv>>

PollerSpec == PollerInit /\ [][PollJob]_vars

----------------------------------------------------------------------------
(* The job waits of one attempt, with the time slept in them added up      *)

\* An attempt whose engine is deployed and whose load_graph call has just
\* answered with a job identifier
WaitsInit ==
    /\ verbose \in BOOLEAN
    /\ backend = "genai"
    /\ db_ready = TRUE
    /\ analysis_history = << >>
    /\ current_analysis = TRUE
    /\ engines = {2}
    /\ current_engine_id = None
    /\ nextId = 3
    /\ pending = << >>
    /\ config \in {c \in Configs : GraphSourceGiven(c)}
    /\ pc = "wait"
    /\ result = [NewResult EXCEPT !.status = "graph_loading",
                                  !.engine_id = 2, !.graph_id = 2]
    /\ attempt = 0
    /\ exc = NoMessage
    /\ original_status = "pending"
    /\ cleanup_phase = "none"
    /\ wait_for = "load"
    /\ elapsed = 0
    /\ job = EmptyRecord
    /\ waited = 0
    /\ results = << >>
    /\ conn = NoConnFields
    /\ deploy_calls = 1
    /\ steps = <<"deploy", "deploy_ok", "load", "load_ok", "load_wait">>
    /\ delete_log = << >>
    /\ deployed = {2}
    /\ logs = {}
    /\ failures = NoFailures
    /\ returned = NothingReturned

\* One pass of the loop of _wait_for_job; its time.sleep adds to the time
\* the attempt has spent waiting
PollTimed ==
    /\ pc = "wait"
    /\ \E i \in 1..Len(JobRecs) : PollStep(JobRecs[i])
    /\ waited' = IF pc' = "wait" THEN waited + DEFAULT_POLL_INTERVAL
                                 ELSE waited
    /\ UNCHANGED <<conn, results, orch, gaev, pending, config, result, attempt, clnv,
                   deploy_calls, delete_log, deployed, logs, failures, outv>>

WaitsNext ==
    \/ PollTimed
    \/ GetGraph
    \/ RunAlgorithm
    \/ StoreResults

WaitsSpec == WaitsInit /\ [][WaitsNext]_vars

----------------------------------------------------------------------------
(* GenAIGAEConnection.wait_for_job, the poller of the connection itself    *)

\* The failed states of constants.py
FAILED_STATES == {"failed", "error"}

\* str has no get: what `status.get(...)` raises for a status string
AttributeErr == <<"'str'", "object", "has", "no", "attribute", "'get'">>

\* f"Job {job_id} did not complete within {max_wait}s"
ConnTimeoutMessage(max_wait) ==
    <<"Job", "did", "not", "complete", "within", ToString(max_wait), "s">>

\* f"Job {job_id} failed: {error_msg}"
ConnFailureMessage(reported) == <<"Job", "failed", ":">> \o reported

\* One pass of the loop of wait_for_job, seconds after the wait began, for
\* the record j that get_job answers; a status value of JobSpace is a string
ConnWaitOutcome(j, seconds, max_wait) ==
    IF seconds > max_wait
    THEN [kind |-> "timeout", msg |-> ConnTimeoutMessage(max_wait)]
    ELSE IF "status" \in DOMAIN j
    THEN [kind |-> "crash", msg |-> AttributeErr]
    ELSE LET state == Get(j, "state", "unknown")
             byState ==
                IF state \in COMPLETED_STATES
                THEN [kind |-> "return", msg |-> NoMessage]
                ELSE IF state \in FAILED_STATES
                THEN [kind |-> "raise",
                      msg  |-> ConnFailureMessage(Get(j, "error", UnknownError))]
                ELSE [kind |-> "running", msg |-> NoMessage]
         IN  IF "progress" \in DOMAIN j /\ "total" \in DOMAIN j
             THEN IF Truthy(Get(j, "error", << >>))
                  THEN [kind |-> "raise",
                        msg  |-> ConnFailureMessage(
                                    Get(j, "error_message", UnknownError))]
                  ELSE IF j["progress"] >= j["total"] /\ j["total"] > 0
                       THEN [kind |-> "return", msg |-> NoMessage]
                       ELSE byState
             ELSE byState

\* A connection that has just entered wait_for_job with max_wait =
\* MaxTimeout; job is the record the engine holds for the job
ConnInit ==
    /\ verbose \in BOOLEAN
    /\ backend = "genai"
    /\ db_ready = FALSE
    /\ analysis_history = << >>
    /\ current_analysis = FALSE
    /\ engines = {2}
    /\ current_engine_id = None
    /\ nextId = 3
    /\ pending = << >>
    /\ config \in {c \in Configs : /\ GraphSourceGiven(c)
                                   /\ c.algorithm = "pagerank"
                                   /\ c.auto_cleanup
                                   /\ ~ c.retry_on_failure
                                   /\ c.max_retries = 0}
    /\ pc = "conn_wait"
    /\ result = NewResult
    /\ attempt = 0
    /\ exc = NoMessage
    /\ original_status = "pending"
    /\ cleanup_phase = "none"
    /\ wait_for = "none"
    /\ elapsed = 0
    /\ job \in JobSpace
    /\ waited = 0
    /\ results = << >>
    /\ conn = NoConnFields
    /\ deploy_calls = 0
    /\ steps = << >>
    /\ delete_log = << >>
    /\ deployed = {}
    /\ logs = {}
    /\ failures = NoFailures
    /\ returned = NothingReturned

\* One pass of the loop of wait_for_job
ConnPoll ==
    /\ pc = "conn_wait"
    /\ LET outcome == ConnWaitOutcome(job, elapsed, MaxTimeout)
       IN  CASE outcome.kind = "return" ->
                  /\ pc' = "conn_returned"
                  /\ UNCHANGED <<exc, elapsed>>
             [] outcome.kind \in {"raise", "crash", "timeout"} ->
                  /\ pc' = "conn_raised"
                  /\ exc' = outcome.msg
                  /\ UNCHANGED elapsed
             [] outcome.kind = "running" ->
                  /\ elapsed' = elapsed + DEFAULT_POLL_INTERVAL
                  /\ UNCHANGED <<pc, exc>>
    /\ UNCHANGED <<conn, results, waited, orch, gaev, pending, config, result, attempt, clnv,
                   wait_for, job, histv, outv>>

ConnSpec == ConnInit /\ [][ConnPoll]_vars

----------------------------------------------------------------------------
(* _is_retryable_error on its own, for every short message over a small    *)
(* vocabulary                                                              *)

MessageWords ==
    {"ARANGO_GRAPH_TOKEN", "arango_graph_token", "not", "set",
     "Configuration", "configuration", "error", "timeout"}

Messages ==
    UNION {[1..n -> MessageWords] : n \in 0..MaxMessageLen}

\* The state of every variable a specification of a single function leaves
\* alone: an orchestrator that is not running anything
NothingRunning ==
    /\ verbose \in BOOLEAN
    /\ backend = "genai"
    /\ db_ready = FALSE
    /\ analysis_history = << >>
    /\ current_analysis = FALSE
    /\ current_engine_id = None
    /\ nextId = 2
    /\ result = NewResult
    /\ attempt = 0
    /\ original_status = "pending"
    /\ cleanup_phase = "none"
    /\ wait_for = "none"
    /\ elapsed = 0
    /\ job = EmptyRecord
    /\ waited = 0
    /\ results = << >>
    /\ deploy_calls = 0
    /\ steps = << >>
    /\ delete_log = << >>
    /\ deployed = {}
    /\ logs = {}
    /\ failures = NoFailures
    /\ returned = NothingReturned

\* A caller about to classify the message exc
ClassifierInit ==
    /\ NothingRunning
    /\ engines = {}
    /\ conn = NoConnFields
    /\ pending = << >>
    /\ config \in {c \in Configs : /\ GraphSourceGiven(c)
                                   /\ c.algorithm = "pagerank"
                                   /\ c.auto_cleanup
                                   /\ ~ c.retry_on_failure
                                   /\ c.max_retries = 0}
    /\ pc = "classify"
    /\ exc \in Messages

\* A call of _is_retryable_error; pc holds its answer
Classify ==
    /\ pc = "classify"
    /\ pc' = IF IsRetryable(exc) THEN "retryable" ELSE "not_retryable"
    /\ UNCHANGED <<conn, results, waited, orch, gaev, pending, config, result, attempt, exc,
                   clnv, waitv, histv, outv>>

ClassifierSpec == ClassifierInit /\ [][Classify]_vars

----------------------------------------------------------------------------
(* The cost estimate of a completed run. Amounts are exact: a rate is in   *)
(* cents per hour and a cost in units of 1/360000 USD, so that             *)
(* (duration_seconds / 60 / 60) * rate is duration_seconds * rate.         *)

\* GAEOrchestrator.ENGINE_COSTS, in cents per hour
ENGINE_COSTS ==
    [e4 |-> 20, e8 |-> 30, e16 |-> 40, e32 |-> 80, e64 |-> 160, e128 |-> 320]

\* An Optional amount: None, or the amount v
NoAmount == << >>
Amount(v) == <<v>>

EngineSizes == DOMAIN ENGINE_COSTS \cup {"custom"}

\* result.estimated_cost_usd after the cost block of run_analysis
EstimatedCost(duration_seconds, engine_size, previous) ==
    LET hourly_cost == Get(ENGINE_COSTS, engine_size, 0)
    IN  IF hourly_cost > 0
        THEN Amount(duration_seconds * hourly_cost)
        ELSE previous

\* An attempt whose four steps are done, duration_seconds after the start
\* of the run
CostInit ==
    /\ NothingRunning
    /\ engines = {}
    /\ conn = NoConnFields
    /\ pending = << >>
    /\ \E size \in EngineSizes :
          config \in {[engine_size |-> size] @@ c :
                        c \in {k \in Configs : /\ GraphSourceGiven(k)
                                               /\ k.algorithm = "pagerank"
                                               /\ k.auto_cleanup
                                               /\ ~ k.retry_on_failure
                                               /\ k.max_retries = 0}}
    /\ pc = "completed"
    /\ exc = NoMessage

\* The success path of the try body: status, timing and cost
MarkCompletedWithCost ==
    /\ pc = "completed"
    /\ \E duration_seconds \in 0..MaxDuration :
          result' = [duration_seconds  |-> duration_seconds,
                     estimated_cost_usd |->
                        EstimatedCost(duration_seconds, config.engine_size,
                                      NoAmount)]
                    @@ [result EXCEPT !.status = "completed"]
    /\ pc' = "final"
    /\ UNCHANGED <<conn, results, waited, orch, gaev, pending, config, attempt, exc, clnv,
                   waitv, histv, outv>>

CostSpec == CostInit /\ [][MarkCompletedWithCost]_vars

----------------------------------------------------------------------------
(* load_graph of the engine connection, called on its own. The arguments   *)
(* of the call are in config, the payloads handed to _request in steps.    *)

\* The arguments of a load_graph call; the empty text and the empty list
\* stand for an argument left at None
LoadGraphCalls ==
    [database           : {<<"db">>, <<"other">>},
     vertex_collections : {<< >>, <<"v">>, <<"v", "w">>},
     edge_collections   : {<< >>, <<"e">>},
     graph_name         : {<< >>, <<"g">>},
     vertex_attributes  : {<< >>, <<"a">>}]

\* The test at the head of load_graph that rejects the call
LoadGraphRejects(c) ==
    ~ Truthy(c.graph_name)
        /\ ~ (Truthy(c.vertex_collections) /\ Truthy(c.edge_collections))

\* The payload load_graph builds
LoadGraphPayload(c) ==
    [database |-> c.database]
    @@ (IF Truthy(c.graph_name)
        THEN [graph_name |-> c.graph_name]
        ELSE [vertex_collections |-> c.vertex_collections,
              edge_collections   |-> c.edge_collections])
    @@ (IF Truthy(c.vertex_attributes)
        THEN [vertex_attributes |-> c.vertex_attributes]
        ELSE EmptyRecord)

LoadInit ==
    /\ NothingRunning
    /\ engines = {}
    /\ conn = NoConnFields
    /\ pending = << >>
    /\ config \in LoadGraphCalls
    /\ pc = "load_graph"
    /\ exc = NoMessage

\* One call of load_graph
ConnLoadGraph ==
    /\ pc = "load_graph"
    /\ IF LoadGraphRejects(config)
       THEN /\ pc' = "load_graph_raised"
            /\ exc' = GraphSourceErr
            /\ UNCHANGED <<steps, returned>>
       ELSE /\ steps' = Append(steps, LoadGraphPayload(config))
            /\ \/ \E e \in BackendErrors :
                     /\ pc' = "load_graph_raised"
                     /\ exc' = e
                     /\ UNCHANGED returned
               \/ \E body \in LoadResponses :
                     /\ pc' = "load_graph_returned"
                     /\ returned' = [kind |-> "job",
                                     result |-> NormalizeJobResponse(body)]
                     /\ UNCHANGED exc
    /\ UNCHANGED <<conn, results, waited, orch, gaev, pending, config, result, attempt, clnv,
                   waitv, deploy_calls, delete_log, deployed, logs, failures,
                   analysis_history, current_analysis>>

LoadSpec == LoadInit /\ [][ConnLoadGraph]_vars

----------------------------------------------------------------------------
(* GAEManager._request: the proactive token renewal of _ensure_token_valid *)
(* and _api_request_with_retry. conn holds access_token (tokens are        *)
(* numbered), whether the token is past its renewal age, and the token in  *)
(* the Authorization header; config holds auto_refresh and max_retries;    *)
(* steps logs the HTTP calls and the token refreshes.                      *)

Http401 == <<"401", "Client", "Error">>
Http500 == <<"500", "Server", "Error">>
ConnectionErr == <<"Connection", "refused">>
RefreshErr == <<"Failed", "to", "generate", "token">>
RetriesExhaustedErr ==
    <<"Request", "failed", "after", "all", "retry", "attempts">>

\* What a request can meet: an answer with a status, or no answer at all
HttpOutcomes == {"200", "401", "500", "connection_error"}

HttpErrorMessage(status) ==
    CASE status = "401" -> Http401
      [] status = "500" -> Http500
      [] OTHER          -> ConnectionErr

\* A retry test without the bound on the attempts
ShouldRefreshUnbounded(status, a, max_retries, auto_refresh) ==
    status = "401" /\ auto_refresh

\* The test of the HTTPError handler of _api_request_with_retry
ShouldRefresh(status, a, max_retries, auto_refresh) ==
    status = "401" /\ a < max_retries /\ auto_refresh

\* _refresh_token that succeeds: a new token, just created
Refreshed(c) ==
    [c EXCEPT !.access_token = @ + 1, !.expired = FALSE]

RequestInit ==
    /\ NothingRunning
    /\ engines = {}
    /\ pending = << >>
    /\ config \in [auto_refresh : BOOLEAN,
                   max_retries  : (0 - 1)..MaxRequestRetries]
    /\ conn \in [access_token : {1}, header_token : {1}, expired : BOOLEAN]
    /\ pc = "ensure_token"
    /\ exc = NoMessage

\* _ensure_token_valid at the head of _request, then the headers
EnsureTokenValid ==
    /\ pc = "ensure_token"
    /\ IF config.auto_refresh /\ conn.expired
       THEN \/ /\ conn' = [Refreshed(conn) EXCEPT
                               !.header_token = conn.access_token + 1]
               /\ steps' = Append(steps, [op |-> "refresh", why |-> "age",
                                          token |-> conn.access_token + 1])
               /\ pc' = "send"
               /\ UNCHANGED exc
            \/ /\ pc' = "request_raised"
               /\ exc' = RefreshErr
               /\ UNCHANGED <<conn, steps>>
       ELSE /\ conn' = [conn EXCEPT !.header_token = conn.access_token]
            /\ pc' = "send"
            /\ UNCHANGED <<steps, exc>>
    /\ UNCHANGED <<results, waited, orch, gaev, pending, config, result,
                   attempt, clnv, waitv, deploy_calls, delete_log, deployed,
                   logs, failures, outv>>

\* One pass of the for loop of _api_request_with_retry, or its end
SendRequest ==
    /\ pc = "send"
    /\ IF attempt >= config.max_retries + 1
       THEN /\ pc' = "request_raised"
            /\ exc' = RetriesExhaustedErr
            /\ UNCHANGED <<conn, steps, attempt>>
       ELSE \E status \in HttpOutcomes :
              LET call == [op |-> "http", status |-> status,
                           token |-> conn.header_token]
              IN  IF status = "200"
                  THEN /\ steps' = Append(steps, call)
                       /\ pc' = "request_returned"
                       /\ UNCHANGED <<conn, exc, attempt>>
                  ELSE IF ShouldRefresh(status, attempt, config.max_retries,
                                        config.auto_refresh)
                  THEN \/ /\ conn' = [Refreshed(conn) EXCEPT
                                          !.header_token = conn.access_token + 1]
                          /\ steps' = steps \o
                                <<call, [op |-> "refresh", why |-> "401",
                                         token |-> conn.access_token + 1]>>
                          /\ attempt' = attempt + 1
                          /\ UNCHANGED <<pc, exc>>
                       \/ /\ steps' = Append(steps, call)
                          /\ pc' = "request_raised"
                          /\ exc' = RefreshErr
                          /\ UNCHANGED <<conn, attempt>>
                  ELSE /\ steps' = Append(steps, call)
                       /\ pc' = "request_raised"
                       /\ exc' = HttpErrorMessage(status)
                       /\ UNCHANGED <<conn, attempt>>
    /\ UNCHANGED <<results, waited, orch, gaev, pending, config, result, clnv,
                   waitv, deploy_calls, delete_log, deployed, logs, failures,
                   outv>>

RequestNext == EnsureTokenValid \/ SendRequest

RequestSpec == RequestInit /\ [][RequestNext]_vars

----------------------------------------------------------------------------
(* GenAIGAEConnection.ensure_service. engines is the list of services the  *)
(* platform holds; conn holds the field engine_id and the local service_id *)
(* of the call; config holds the arguments; attempt is the index i of the  *)
(* health-check loop; steps logs the calls made.                           *)

NewServiceId == 3        \* id the platform gives a service it starts
ServiceIds == {None, 1, 2}
Services ==
    [serviceId : ServiceIds, status : {"DEPLOYED", "FAILED"},
     type : {"gral", "other"}]
ServiceLists == UNION {[1..n -> Services] : n \in 0..MaxServices}

StartErr == <<"Failed", "to", "start", "engine">>

\* The filter of the reuse loop
Qualifies(service) ==
    service.status = "DEPLOYED" /\ service.type = "gral"

\* Index of the service the reuse loop breaks at, 0 when it runs to the end
FirstQualifying(services) ==
    IF \E i \in 1..Len(services) : Qualifies(services[i])
    THEN CHOOSE i \in 1..Len(services) :
            /\ Qualifies(services[i])
            /\ \A j \in 1..(i - 1) : ~ Qualifies(services[j])
    ELSE 0

\* 'if not service_id'
StartNeeded(service_id) == service_id = None

EnsureInit ==
    /\ NothingRunning
    /\ pending = << >>
    /\ engines \in ServiceLists
    /\ config \in [reuse_existing : BOOLEAN, wait_for_ready : BOOLEAN,
                   max_retries : 0..MaxHealthChecks]
    /\ conn = [engine_id |-> None, service_id |-> None]
    /\ pc = "ensure_reuse"
    /\ exc = NoMessage

\* Step 1 of ensure_service: the listing and the reuse loop
ReuseExisting ==
    /\ pc = "ensure_reuse"
    /\ pc' = "ensure_start"
    /\ IF ~ config.reuse_existing
       THEN UNCHANGED <<conn, steps>>
       ELSE \/ \* list_services answers, or swallows its error and gives []
               \E services \in {engines, << >>} :
                 LET k == FirstQualifying(services)
                 IN  /\ steps' = Append(steps, [op |-> "list_services",
                                                ok |-> TRUE,
                                                services |-> services])
                     /\ conn' = IF k = 0 THEN conn
                                ELSE [engine_id  |-> services[k].serviceId,
                                      service_id |-> services[k].serviceId]
            \/ \* the answer cannot be iterated: caught, warning printed
               /\ steps' = Append(steps, [op |-> "list_services",
                                          ok |-> FALSE,
                                          services |-> << >>])
               /\ UNCHANGED conn
    /\ UNCHANGED <<results, waited, orch, gaev, pending, config, result,
                   attempt, exc, clnv, waitv, deploy_calls, delete_log,
                   deployed, logs, failures, outv>>

\* Step 2 of ensure_service: start_engine when nothing was adopted
StartIfNeeded ==
    /\ pc = "ensure_start"
    /\ IF StartNeeded(conn.service_id)
       THEN /\ steps' = Append(steps, [op |-> "start_engine"])
            /\ \/ /\ conn' = [engine_id  |-> NewServiceId,
                               service_id |-> NewServiceId]
                  /\ pc' = "ensure_ready"
                  /\ UNCHANGED exc
               \/ /\ pc' = "ensure_raised"
                  /\ exc' = StartErr
                  /\ UNCHANGED conn
       ELSE /\ pc' = "ensure_ready"
            /\ UNCHANGED <<conn, steps, exc>>
    /\ UNCHANGED <<results, waited, orch, gaev, pending, config, result,
                   attempt, clnv, waitv, deploy_calls, delete_log, deployed,
                   logs, failures, outv>>

\* Step 3 of ensure_service: one pass of the health-check loop, or the
\* return that follows it
HealthCheck ==
    /\ pc = "ensure_ready"
    /\ IF config.wait_for_ready /\ attempt < config.max_retries
       THEN \/ /\ conn.engine_id # None
                  /\ steps' = Append(steps, [op |-> "health_check",
                                             ok |-> TRUE])
                  /\ pc' = "ensure_returned"
                  /\ returned' = [kind |-> "service",
                                  result |-> conn.service_id]
                  /\ UNCHANGED attempt
               \/ /\ steps' = Append(steps, [op |-> "health_check",
                                             ok |-> FALSE])
                  /\ attempt' = attempt + 1
                  /\ UNCHANGED <<pc, returned>>
       ELSE /\ pc' = "ensure_returned"
            /\ returned' = [kind |-> "service", result |-> conn.service_id]
            /\ UNCHANGED <<steps, attempt>>
    /\ UNCHANGED <<conn, results, waited, orch, gaev, pending, config, result,
                   exc, clnv, waitv, deploy_calls, delete_log, deployed, logs,
                   failures, analysis_history, current_analysis>>

EnsureNext == ReuseExisting \/ StartIfNeeded \/ HealthCheck

EnsureSpec == EnsureInit /\ [][EnsureNext]_vars


----------------------------------------------------------------------------
(* Vocabulary of the claims *)

Last(seq) == seq[Len(seq)]

IsPrefix(a, b) ==
    /\ Len(a) <= Len(b)
    /\ \A i \in 1..Len(a) : a[i] = b[i]

\* run_analysis has handed a result to its caller
Returned == pc = "idle" /\ returned.kind = "result"

\* The retry loop is over and the final clean-up block has been passed
AfterFinalCleanup == pc = "append" \/ Returned

\* delete_engine was called with id in the final clean-up
FinalDeleteCalled(id) ==
    /\ delete_log # << >>
    /\ Last(delete_log).phase = "final"
    /\ Last(delete_log).engine_id = id

DeletedOk(id) ==
    \E k \in 1..Len(delete_log) :
        delete_log[k].engine_id = id /\ delete_log[k].ok

\* Some warning or error line about a failed clean-up names the engine
ReportedOrphaned(id) ==
    \E l \in logs :
        /\ l.level \in {"WARN", "ERROR"}
        /\ l.text \in {"cleanup before retry failed", "engine cleanup failed",
                       "you must manually delete engine"}
        /\ l.engine_id = id

\* The backend operations of one attempt, in the order of the workflow
StepOrder(load_job, store_job) ==
    <<"deploy", "deploy_ok", "load">>
    \o (IF load_job THEN <<"load_ok", "load_wait", "load_wait_ok">>
                    ELSE <<"load_ok_no_job">>)
    \o <<"algorithm", "algorithm_ok", "algorithm_wait", "algorithm_wait_ok",
         "store">>
    \o (IF store_job THEN <<"store_ok", "store_wait", "store_wait_ok">>
                     ELSE <<"store_ok_no_job">>)

----------------------------------------------------------------------------
(* C1: however the retry loop ends, an engine identifier that is on the    *)
(* result when auto_cleanup is set is passed to delete_engine by the final *)
(* clean-up, before run_analysis returns.                                  *)
ThmC1 ==
    (AfterFinalCleanup /\ result.engine_id # None /\ config.auto_cleanup)
        => FinalDeleteCalled(result.engine_id)

WitC1 ==
    /\ Returned
    /\ result.status = "failed"
    /\ result.retry_count = 1
    /\ config.auto_cleanup
    /\ FinalDeleteCalled(result.engine_id)

(* C2: with auto_cleanup, every engine identifier a deploy of the run      *)
(* obtained is, when run_analysis returns, deleted or reported as orphaned *)
(* with that identifier. Stated for a verbose orchestrator, whose _log     *)
(* prints.                                                                 *)
CexC2 ==
    (Returned /\ config.auto_cleanup /\ verbose)
        => \A id \in deployed : DeletedOk(id) \/ ReportedOrphaned(id)

(* C3: a failed delete_engine call of the final clean-up is reported by a  *)
(* log line naming the engine, whatever the verbose setting.               *)
CexC3 ==
    (Returned /\ delete_log # << >> /\ Last(delete_log).phase = "final"
              /\ ~ Last(delete_log).ok)
        => ReportedOrphaned(Last(delete_log).engine_id)

(* C4: an exception of delete_engine, before a retry or in the final       *)
(* clean-up, never leaves run_analysis: the run goes on to the next        *)
(* attempt or to the return, with the terminal status it had before.       *)
ThmC4 ==
    [][pc = "delete" =>
          /\ pc' \in {"loop", "append"}
          /\ result'.status = original_status
          /\ result'.status \in {"completed", "failed"}
          /\ returned' = returned]_vars

WitC4 ==
    /\ Returned
    /\ Len(delete_log) = 2
    /\ ~ delete_log[1].ok
    /\ ~ delete_log[2].ok
    /\ delete_log[1].engine_id = delete_log[2].engine_id
    /\ delete_log[1].engine_id \notin engines
    /\ result.status = "failed"

(* C5: a config that gives neither a named graph nor both collection lists *)
(* ends FAILED with retry_count 0 and without any deploy_engine call.      *)
CexC5 ==
    (Returned /\ ~ GraphSourceGiven(config))
        => /\ result.status = "failed"
           /\ result.retry_count = 0
           /\ deploy_calls = 0

(* C6, as stated: a run that ends with a failure matching a non-retryable  *)
(* pattern has retry_count 0.                                              *)
CexC6 ==
    (Returned /\ result.status = "failed"
              /\ MatchesNonRetryable(result.error_message))
        => result.retry_count = 0

(* C6, amended: a failure matching a non-retryable pattern is the last     *)
(* failure of its run; the run ends FAILED with that message and with      *)
(* retry_count equal to the number of failures before it, so 0 when the    *)
(* first attempt fails that way, whatever max_retries is.                  *)
ThmC6 ==
    (Returned /\ failures.non_retryable)
        => /\ result.status = "failed"
           /\ MatchesNonRetryable(result.error_message)
           /\ result.retry_count = failures.count - 1

WitC6 ==
    /\ Returned
    /\ failures.non_retryable
    /\ failures.count = 1
    /\ config.max_retries = MaxRetries
    /\ config.retry_on_failure
    /\ result.retry_count = 0

(* C7: once an attempt has failed with a message matching a non-retryable  *)
(* pattern the loop is over: the run only goes through the final clean-up  *)
(* to the return, with one deploy per failed attempt and no further        *)
(* backend operation, the status is FAILED, and the final clean-up has     *)
(* called delete_engine when the engine is to be cleaned up.               *)
ThmC7 ==
    /\ [](failures.non_retryable =>
            /\ pc \in {"final", "delete", "append", "idle"}
            /\ deploy_calls = failures.count
            /\ result.status \in {"failed", "cleaning_up"}
            /\ AfterFinalCleanup =>
                  /\ result.status = "failed"
                  /\ (result.engine_id # None /\ config.auto_cleanup)
                        => FinalDeleteCalled(result.engine_id))
    /\ [][failures.non_retryable =>
            (steps' = steps /\ deploy_calls' = deploy_calls)]_vars

WitC7 ==
    /\ Returned
    /\ failures.non_retryable
    /\ failures.count = 2
    /\ result.status = "failed"
    /\ Len(steps) > 3
    /\ FinalDeleteCalled(result.engine_id)
    /\ Last(delete_log).ok

(* C8: with retry_on_failure and only failures that match no non-retryable *)
(* pattern, deploy_engine is called once per attempt until the first       *)
(* success and at most max_retries + 1 times: a completed run has one      *)
(* deploy more than it has failures, a run that never succeeds has         *)
(* max_retries + 1 deploys.                                                *)
ThmC8 ==
    (Returned /\ config.retry_on_failure /\ ~ failures.non_retryable)
        => IF result.status = "completed"
           THEN /\ deploy_calls = failures.count + 1
                /\ deploy_calls <= config.max_retries + 1
                /\ result.retry_count = failures.count
           ELSE /\ deploy_calls = config.max_retries + 1
                /\ failures.count = deploy_calls

\* One transient failure, then success, with max_retries = 1
WitC8 ==
    /\ Returned
    /\ config.retry_on_failure
    /\ config.max_retries = 1
    /\ failures = [count |-> 1, non_retryable |-> FALSE]
    /\ result.status = "completed"
    /\ result.retry_count = 1
    /\ deploy_calls = 2

(* C9: the loop runs at most once without retry_on_failure and at most     *)
(* max_retries + 1 times with it, so deploy_engine, the first call of each *)
(* iteration, is never called more often than that.                        *)
ThmC9 ==
    /\ deploy_calls <= (IF config.retry_on_failure
                        THEN config.max_retries + 1 ELSE 1)
    /\ attempt <= deploy_calls

WitC9 ==
    /\ Returned
    /\ config.retry_on_failure
    /\ config.max_retries = MaxRetries
    /\ deploy_calls = MaxRetries + 1
    /\ result.status = "failed"

AttemptSucceeded ==
    \E load_job, store_job \in BOOLEAN : steps = StepOrder(load_job, store_job)

(* C11: a run with auto_cleanup whose first attempt succeeds in every      *)
(* operation ends COMPLETED with deploy, load, algorithm and store each    *)
(* called once, and delete_engine is called exactly once, with the engine  *)
(* the deploy gave, and only after store_results.                          *)
ThmC11 ==
    /\ (Returned /\ config.auto_cleanup /\ failures.count = 0
                 /\ deploy_calls > 0)
          => /\ result.status = "completed"
             /\ deploy_calls = 1
             /\ AttemptSucceeded
             /\ deployed = {result.engine_id}
             /\ Len(delete_log) = 1
             /\ delete_log[1].engine_id = result.engine_id
    /\ (failures.count = 0 /\ delete_log # << >>)
          => /\ AttemptSucceeded
             /\ Len(delete_log) = 1
             /\ pc \in {"append", "idle"}

WitC11 ==
    /\ Returned
    /\ config.auto_cleanup
    /\ failures.count = 0
    /\ result.status = "completed"
    /\ steps = StepOrder(TRUE, TRUE)
    /\ delete_log = <<[engine_id |-> result.engine_id, phase |-> "final",
                       ok |-> TRUE]>>

(* C12: every attempt after the first starts with result.engine_id         *)
(* cleared, whether the clean-up of the failed attempt's engine succeeded  *)
(* or failed.                                                              *)
CexC12 == (pc = "deploy" /\ attempt > 0) => result.engine_id = None

(* C13: when list_engines answers with one or more engines the run is      *)
(* aborted by an error that is not retried, before any deploy or later     *)
(* operation; a connection without list_engines goes from the check        *)
(* straight to the retry loop.                                             *)
ThmC13 ==
    /\ [][(pc = "listed" /\ engines # {}) =>
             (pc' = "raised" /\ returned'.kind = "raised")]_vars
    /\ [][(pc = "check" /\ backend = "genai") => pc' = "loop"]_vars
    /\ [](pc \in {"listed", "raised"} =>
             (deploy_calls = 0 /\ steps = << >> /\ deployed = {}
              /\ failures.count = 0))
    /\ [][pc = "raised" => UNCHANGED vars]_vars

WitC13 ==
    /\ pc = "raised"
    /\ db_ready
    /\ backend = "amp"
    /\ engines # {}
    /\ deploy_calls = 0

\* run_analysis is over, by a return or by an exception
RunOver == pc = "raised" \/ (pc = "idle" /\ returned.kind # "none")

(* C14: every run_analysis call, however it ends, returns a result and     *)
(* appends that one result to analysis_history.                            *)
CexC14 ==
    RunOver => (returned.kind = "result"
                /\ analysis_history = <<returned.result>>)

----------------------------------------------------------------------------
(* Vocabulary of the claims about _wait_for_job; a step of PollerSpec is   *)
(* one poll whose record is job                                            *)

\* The wait returned to its caller
WaitReturned == pc \in {"get_graph", "store", "count"}

\* The wait ended with the error of a failed job
TimeoutText == <<"timed", "out", "after">>
WaitFailed == pc = "except" /\ ~ Contains(exc, TimeoutText)
WaitTimedOut == pc = "except" /\ Contains(exc, TimeoutText)

\* The record has the progress/total pair, the status string, the state string
HasProgressShape(j) == {"progress", "total"} \subseteq DOMAIN j
HasStatusShape(j) == "status" \in DOMAIN j
HasStateShape(j) == "state" \in DOMAIN j

\* The poll of this step decided nothing: the wait goes on or times out
PollUndecided == pc' = "wait" \/ WaitTimedOut'

(* C15: for a record with the progress/total pair a set error flag raises, *)
(* whatever the progress; otherwise the poll returns success exactly when  *)
(* progress >= total and total > 0.                                        *)
ThmC15 ==
    [][(pc = "wait" /\ HasProgressShape(job)) =>
          IF "error" \in DOMAIN job /\ job["error"] # << >>
          THEN WaitFailed'
          ELSE IF job["progress"] >= job["total"] /\ job["total"] > 0
               THEN WaitReturned'
               ELSE PollUndecided]_vars

\* The error flag wins over a finished progress
WitC15 ==
    /\ WaitFailed
    /\ HasProgressShape(job)
    /\ job["progress"] >= job["total"]
    /\ job["total"] > 0
    /\ "error" \in DOMAIN job

(* C16: for a record with only the state string the poll returns success   *)
(* for done, finished, completed and succeeded, raises for failed and      *)
(* error, and leaves the wait going for any other state.                   *)
CexC16 ==
    [][(pc = "wait" /\ HasStateShape(job) /\ ~ HasStatusShape(job)
                    /\ ~ HasProgressShape(job)) =>
          IF job["state"] \in COMPLETED_STATES THEN WaitReturned'
          ELSE IF job["state"] \in {"failed", "error"} THEN WaitFailed'
          ELSE PollUndecided]_vars

\* The record cut down to the keys of the shape that has precedence
DecidingKeys(j) ==
    IF HasProgressShape(j) THEN {"progress", "total", "error", "error_message"}
    ELSE IF HasStatusShape(j) THEN {"status", "error"}
    ELSE IF HasStateShape(j) THEN {"state", "error"}
    ELSE {}

OnlyDecidingShape(j) == [k \in DOMAIN j \cap DecidingKeys(j) |-> j[k]]

(* C17: a poll is decided by one shape only, the progress/total pair       *)
(* before the status string before the state string: the outcome is the    *)
(* one the record would have without the keys of the other shapes.         *)
ThmC17 ==
    [][pc = "wait" =>
          LET alone == JobOutcome(OnlyDecidingShape(job), Description(wait_for))
          IN  CASE alone.kind = "return"  -> WaitReturned'
                [] alone.kind = "raise"   -> WaitFailed' /\ exc' = alone.msg
                [] alone.kind = "running" -> PollUndecided]_vars

\* progress 5 of 10 together with status succeeded: polled, still running
WitC17 ==
    /\ pc = "wait"
    /\ elapsed > 0
    /\ HasProgressShape(job)
    /\ job["progress"] < job["total"]
    /\ HasStatusShape(job)
    /\ job["status"] = "succeeded"

\* What the backend reported as the reason of the failure: error_message
\* beside the error flag of the progress shape, error in the other shapes
ReportedReason(j) ==
    IF HasProgressShape(j) THEN Get(j, "error_message", << >>)
    ELSE Get(j, "error", << >>)

(* C18: when a poll ends the wait because the job failed, in any of the    *)
(* three shapes, the message of the error raised contains the reason the   *)
(* record gives for the failure.                                           *)
ThmC18 ==
    [][(pc = "wait" /\ WaitFailed') => Contains(exc', ReportedReason(job))]_vars

\* state failed with error "out of memory"
WitC18 ==
    /\ WaitFailed
    /\ DOMAIN job = {"state", "error"}
    /\ job["state"] = "failed"
    /\ job["error"] = OomErr
    /\ Contains(exc, OomErr)

(* C19: after a poll that decides nothing the wait goes on to a further    *)
(* poll, one poll interval later, only when the time since the wait began  *)
(* is within the configured timeout; otherwise the timeout error ends the  *)
(* wait. The timeout ends the wait at no other point.                      *)
ThmC19 ==
    /\ [][(pc = "wait" /\ PollUndecided) =>
             IF elapsed > config.timeout_seconds
             THEN WaitTimedOut'
             ELSE pc' = "wait" /\ elapsed' = elapsed + DEFAULT_POLL_INTERVAL]_vars
    /\ [][WaitTimedOut' =>
             (pc = "wait" /\ elapsed > config.timeout_seconds)]_vars
    /\ [](pc = "wait" =>
             elapsed <= config.timeout_seconds + DEFAULT_POLL_INTERVAL)

WitC19 ==
    /\ WaitTimedOut
    /\ \E t \in 1..(MaxTimeout + DEFAULT_POLL_INTERVAL) :
          /\ t > config.timeout_seconds
          /\ exc = TimeoutMessage(<<"Graph", "loading">>, t)

(* C20: within one attempt the time spent in the load, algorithm and store *)
(* waits together exceeds timeout_seconds by more than one poll interval   *)
(* only when a timeout error has ended the attempt.                        *)
CexC20 ==
    waited > config.timeout_seconds + DEFAULT_POLL_INTERVAL => WaitTimedOut

\* The record has none of the three shapes
Unrecognized(j) ==
    ~ HasProgressShape(j) /\ ~ HasStatusShape(j) /\ ~ HasStateShape(j)

(* C29: a poll that fetches a record of unrecognized shape, such as the    *)
(* empty record, never ends the wait by itself: the wait goes on, one poll *)
(* interval later, unless the timeout has passed, and then it ends with    *)
(* the timeout error.                                                      *)
ThmC29 ==
    [][(pc = "wait" /\ Unrecognized(job)) =>
          IF elapsed > config.timeout_seconds
          THEN /\ WaitTimedOut'
               /\ exc' = TimeoutMessage(Description(wait_for), elapsed)
          ELSE /\ pc' = "wait"
               /\ elapsed' = elapsed + DEFAULT_POLL_INTERVAL
               /\ exc' = exc /\ result' = result /\ steps' = steps]_vars

\* The empty record has been polled and the wait goes on
WitC29 ==
    /\ pc = "wait"
    /\ job = EmptyRecord
    /\ elapsed = DEFAULT_POLL_INTERVAL
    /\ elapsed <= config.timeout_seconds

----------------------------------------------------------------------------
(* Claims about GenAIGAEConnection.wait_for_job; a step of ConnSpec is one *)
(* pass of its loop                                                        *)

ConnJobFailed == pc = "conn_raised" /\ IsPrefix(<<"Job", "failed", ":">>, exc)

(* C21: wait_for_job handles all three shapes: a status string returns on  *)
(* succeeded and raises job-failed on failed, a state string returns on a  *)
(* completed state and raises on a failed one, a progress/total pair       *)
(* returns when progress >= total and total > 0, and the timeout error is  *)
(* raised once the elapsed time exceeds max_wait.                          *)
CexC21 ==
    [][pc = "conn_wait" =>
          IF elapsed > MaxTimeout
          THEN pc' = "conn_raised" /\ exc' = ConnTimeoutMessage(MaxTimeout)
          ELSE /\ (HasStatusShape(job) /\ ~ HasProgressShape(job)) =>
                     /\ job["status"] = "succeeded" => pc' = "conn_returned"
                     /\ job["status"] = "failed" => ConnJobFailed'
               /\ (HasStateShape(job) /\ ~ HasStatusShape(job)
                                      /\ ~ HasProgressShape(job)) =>
                     /\ job["state"] \in COMPLETED_STATES => pc' = "conn_returned"
                     /\ job["state"] \in FAILED_STATES => ConnJobFailed'
               /\ (HasProgressShape(job) /\ ~ Truthy(Get(job, "error", << >>))
                     /\ job["progress"] >= job["total"] /\ job["total"] > 0)
                     => pc' = "conn_returned"]_vars

----------------------------------------------------------------------------
(* Claims about _is_retryable_error; a step of ClassifierSpec is one call  *)

(* C22: the classifier answers False exactly when a pattern of the         *)
(* denylist occurs in the message, letter case aside, and True otherwise;  *)
(* the call changes nothing but its answer, which depends on the message   *)
(* alone.                                                                  *)
ThmC22 ==
    /\ [][pc = "classify" =>
             /\ pc' = (IF MatchesNonRetryable(exc) THEN "not_retryable"
                                                   ELSE "retryable")
             /\ UNCHANGED <<conn, results, waited, orch, gaev, pending, config, result,
                            attempt, exc, clnv, waitv, histv, outv>>]_vars
    /\ [](pc = "not_retryable" <=>
             (pc # "classify" /\ MatchesNonRetryable(exc)))

\* A pattern in another letter case, inside a longer message
WitC22 ==
    /\ pc = "not_retryable"
    /\ exc = <<"timeout", "configuration", "error">>

----------------------------------------------------------------------------
(* Claims about the cost estimate; a step of CostSpec completes a run      *)

(* C23: a completed run has estimated_cost_usd equal to                    *)
(* (duration_seconds / 60 / 60) * rate(engine_size), and equal to 0 when   *)
(* the engine size has no entry in the rate table.                         *)
CexC23 ==
    (pc = "final" /\ result.status = "completed"
                  /\ "estimated_cost_usd" \in DOMAIN result)
        => result.estimated_cost_usd =
              Amount(IF config.engine_size \in DOMAIN ENGINE_COSTS
                     THEN result.duration_seconds
                             * ENGINE_COSTS[config.engine_size]
                     ELSE 0)

----------------------------------------------------------------------------
(* Claims about selectors without an entry point *)

NotSupportedErr(algorithm) ==
    IF algorithm = "betweenness" THEN BetweennessErr
                                 ELSE UnsupportedErr(algorithm)

CexC25 ==
    config.algorithm \notin SupportedAlgorithms =>
        /\ deploy_calls = 0
        /\ deployed = {}
        /\ result.retry_count = 0

----------------------------------------------------------------------------
(* Claims about the lookups that follow a successful step *)

\* A get_graph call that raised: the handler passes and the result is as it was
GetGraphFailed == pc = "get_graph" /\ result' = result

\* A count query that raised: only results_stored has been written
CountFailed ==
    pc = "count" /\ result' = [result EXCEPT !.results_stored = TRUE]

CountWarned ==
    \E l \in logs : l.level = "WARN" /\ l.text = "could not count"

\* Neither lookup raises into the try block or touches the retry counter
LookupIsBestEffort(next_pc) ==
    pc' = next_pc /\ exc' = exc /\ attempt' = attempt
                  /\ failures' = failures /\ deploy_calls' = deploy_calls

----------------------------------------------------------------------------
(* Claims about load_graph of the connection; a step of LoadSpec is a call *)

GraphNameSupplied == Truthy(config.graph_name)
CollectionPairSupplied ==
    Truthy(config.vertex_collections) /\ Truthy(config.edge_collections)

(* C26: load_graph sends its request only when exactly one graph source is *)
(* supplied, graph_name or the vertex/edge collection pair; with neither   *)
(* and with both it raises the validation error and sends nothing.         *)
CexC26 ==
    pc \in {"load_graph_raised", "load_graph_returned"} =>
        IF GraphNameSupplied # CollectionPairSupplied
        THEN Len(steps) = 1
        ELSE /\ steps = << >>
             /\ pc = "load_graph_raised"
             /\ exc = GraphSourceErr

----------------------------------------------------------------------------
(* Claims about results after their run and about run_batch; a behaviour   *)
(* of BatchSpec is one run_batch call                                      *)

Terminal(r) == r.status \in {"completed", "failed"}

InFlight ==
    pc \notin {"idle", "batch_returned"} \/ returned.kind = "result"

\* The configs of the batch: those done, the one in progress, those to come
BatchSequence ==
    [i \in 1..Len(results) |-> results[i].config]
        \o (IF InFlight THEN <<config>> ELSE << >>)
        \o pending

(* C28: run_batch runs the configs one after another in input order and    *)
(* returns one result per config in that order; a run that has ended       *)
(* FAILED, or whose engine clean-up failed, does not keep the remaining    *)
(* configs from being run and reported.                                    *)
CexC28 ==
    /\ [][BatchSequence' = BatchSequence]_vars
    /\ [](pc = "batch_returned" =>
             /\ pending = << >>
             /\ [i \in 1..Len(results) |-> results[i].result] = analysis_history)
    /\ [](results # << >> => pc # "raised")

----------------------------------------------------------------------------
(* Claims about the status of the result around and after the clean-up *)

(* C31: _cleanup_engine sets the status to CLEANING_UP for the time of the *)
(* delete_engine call and, entered from COMPLETED or FAILED, restores that *)
(* status when the call is over, whether it succeeded or raised; a result  *)
(* that run_analysis returns never has status CLEANING_UP.                 *)
ThmC31 ==
    /\ [][(pc \in {"teardown", "final"} /\ pc' = "delete") =>
             /\ result'.status = "cleaning_up"
             /\ original_status' = result.status]_vars
    /\ [](pc = "delete" => result.status = "cleaning_up")
    /\ [][(pc = "delete" /\ Terminal([status |-> original_status])) =>
             /\ Len(delete_log') = Len(delete_log) + 1
             /\ result'.status = original_status]_vars
    /\ [](Returned => returned.result.status # "cleaning_up")
    /\ [](\A i \in 1..Len(analysis_history) :
             analysis_history[i].status # "cleaning_up")

\* A completed run whose final delete_engine call raised
WitC31 ==
    /\ Returned
    /\ returned.result.status = "completed"
    /\ delete_log # << >>
    /\ Last(delete_log).phase = "final"
    /\ ~ Last(delete_log).ok

----------------------------------------------------------------------------
(* Claims about errors of the existing-engine check *)

CheckWarned ==
    \E l \in logs : l.level = "WARN" /\ l.text = "could not check"

(* C32: an error raised while the existing-engine check is performed,      *)
(* other than the check's own finding that engines exist, is not fatal: it *)
(* is logged and the run goes on to the retry loop.                        *)
CexC32 ==
    [][(pc = "check" /\ pc' # "listed" /\ backend = "amp") =>
          /\ pc' = "loop"
          /\ verbose => CheckWarned']_vars

----------------------------------------------------------------------------
(* Claims about the authenticated request of GAEManager; a behaviour of    *)
(* RequestSpec is one _request call                                        *)

HttpCalls == {i \in 1..Len(steps) : steps[i].op = "http"}
AuthRefreshes ==
    {i \in 1..Len(steps) : steps[i].op = "refresh" /\ steps[i].why = "401"}
AllRefreshes == {i \in 1..Len(steps) : steps[i].op = "refresh"}
AtLeastZero(n) == IF n < 0 THEN 0 ELSE n

(* C33: a 401 answer with auto_refresh on is followed by one token refresh *)
(* and a re-send with the new token; a 401 that can no more be retried is  *)
(* raised; one request makes at most max_retries+1 HTTP calls and at most  *)
(* max_retries refreshes on auth failure; an error other than 401 ends the *)
(* request at once; with auto_refresh off no token is ever refreshed.      *)
ThmC33 ==
    /\ Cardinality(HttpCalls) <= AtLeastZero(config.max_retries + 1)
    /\ Cardinality(AuthRefreshes) <= AtLeastZero(config.max_retries)
    /\ ~ config.auto_refresh => AllRefreshes = {}
    /\ \A i \in AuthRefreshes :
          /\ steps[i - 1].op = "http" /\ steps[i - 1].status = "401"
          /\ steps[i].token # steps[i - 1].token
          /\ i < Len(steps) => /\ steps[i + 1].op = "http"
                               /\ steps[i + 1].token = steps[i].token
    /\ \A i \in HttpCalls :
          /\ steps[i].status = "200" =>
                (i = Len(steps) /\ pc = "request_returned")
          /\ steps[i].status \in {"500", "connection_error"} =>
                (i = Len(steps) /\ pc = "request_raised"
                                /\ exc = HttpErrorMessage(steps[i].status))
          /\ (steps[i].status = "401" /\ i = Len(steps)) =>
                (pc = "request_raised" /\ exc \in {Http401, RefreshErr})
    /\ (pc = "request_raised" /\ exc = Http401) =>
          (~ config.auto_refresh \/ attempt >= config.max_retries)

\* max_retries 1: a 401, a refresh, a second 401 that is raised
WitC33 ==
    /\ pc = "request_raised"
    /\ exc = Http401
    /\ config.max_retries = 1
    /\ config.auto_refresh
    /\ Cardinality(HttpCalls) = 2
    /\ Cardinality(AuthRefreshes) = 1

----------------------------------------------------------------------------
(* Claims about ensure_service; a behaviour of EnsureSpec is one call      *)

StartCalls == {i \in 1..Len(steps) : steps[i].op = "start_engine"}
HealthChecks == {i \in 1..Len(steps) : steps[i].op = "health_check"}
PastStart == pc \in {"ensure_ready", "ensure_returned", "ensure_raised"}
Listed ==
    IF steps # << >> /\ steps[1].op = "list_services" /\ steps[1].ok
    THEN steps[1].services ELSE << >>
ReusableListed == \E i \in 1..Len(Listed) : Qualifies(Listed[i])

(* C34: with reuse_existing and a DEPLOYED gral service in the listing the *)
(* first such service becomes engine_id and start_engine is never called;  *)
(* otherwise start_engine is called exactly once; the health check is      *)
(* repeated until its first success, at most max_retries times.            *)
CexC34 ==
    /\ (PastStart /\ ReusableListed) =>
          /\ StartCalls = {}
          /\ conn.engine_id = Listed[FirstQualifying(Listed)].serviceId
    /\ (PastStart /\ ~ ReusableListed) => Cardinality(StartCalls) = 1
    /\ Cardinality(HealthChecks) <= config.max_retries
    /\ \A i \in HealthChecks : steps[i].ok => i = Len(steps)

----------------------------------------------------------------------------
(* Claims about the returned result of run_analysis                        *)

(* C35: a result returned COMPLETED has no error message, also after       *)
(* failed attempts; a result returned FAILED has the message of the last   *)
(* failed attempt.                                                         *)
CexC35 ==
    Returned =>
       /\ returned.result.status = "completed" =>
             returned.result.error_message = NoMessage
       /\ returned.result.status = "failed" =>
             (failures.count > 0 /\ returned.result.error_message = exc)

(* C36: with auto_cleanup false run_analysis never calls delete_engine,    *)
(* neither between attempts nor at the end, and every engine the run       *)
(* deployed is still alive when it returns.                                *)
CexC36 ==
    (pc # "idle" \/ Returned) =>
       (~ config.auto_cleanup =>
           /\ delete_log = << >>
           /\ Returned => deployed \subseteq engines)

(* C37: whatever retry_on_failure and max_retries are, the result that     *)
(* run_analysis returns and stores in analysis_history has status          *)
(* COMPLETED or FAILED.                                                    *)
CexC37 ==
    /\ Returned => Terminal(returned.result)
    /\ \A i \in 1..Len(analysis_history) : Terminal(analysis_history[i])

(* C38: in a returned result results_stored is set exactly when the status *)
(* is COMPLETED; no run ends FAILED with results_stored set, however many  *)
(* attempts failed and were retried.                                       *)
ThmC38 ==
    /\ Returned =>
          (returned.result.results_stored <=>
              returned.result.status = "completed")
    /\ \A i \in 1..Len(analysis_history) :
          analysis_history[i].results_stored <=>
             analysis_history[i].status = "completed"

\* A run that failed once, was retried and stored its results
WitC38 ==
    /\ Returned
    /\ failures.count > 0
    /\ returned.result.status = "completed"
    /\ returned.result.results_stored

----------------------------------------------------------------------------
(* Termination of run_analysis                                             *)

(* C40: with every backend call returning or raising and the clock         *)
(* advancing, every run_analysis call ends: each job wait ends by success, *)
(* failure or timeout whatever records get_job answers, and the retry loop *)
(* ends after a bounded number of attempts.                                *)
ThmC40 ==
    /\ <>RunOver
    /\ [](deploy_calls <= AtLeastZero(config.max_retries) + 1)

\* A run whose two attempts both waited until the timeout and that returned
WitC40 ==
    /\ Returned
    /\ failures.count = 2
    /\ Contains(returned.result.error_message, <<"timed", "out", "after">>)

====
